---- MODULE Spec2Model ----
(***************************************************************************)
(* Client-side synchronisation core of the task board: the Board component *)
(* of src/app/components/Board.tsx (board-scoped, variant "scoped") and    *)
(* its predecessor src/unnamed/part_003 (single board, variant "single").  *)
(* State is the SWR cache entry holding the task array, the WebSocket of   *)
(* the session and the connectivity flag; the operations are the message   *)
(* handler ws.onmessage, the drag handler onDragEnd and the CRUD intents.  *)
(***************************************************************************)
EXTENDS Integers, Sequences, FiniteSets, Bags, TLC

VARIABLES
    variant,          \* which Board component runs: "scoped" | "single"
    tasks,            \* the SWR cache data (undefined is read as [] everywhere)
    readyState,       \* wsRef.current.readyState
    socketConnected,  \* the useState flag shown as Connected / Disconnected
    drag,             \* the drag in progress, as captured by the DnD library
    out,              \* what the last handler emitted (channel, request, refetch)
    prev,             \* tasks as they were when the last handler started
    last,             \* the last handler that ran, with its input
    phase,            \* how many handlers have run on the tasks (counted up to 2)
    twin,             \* the cache of a second client that gets the same messages
    given,            \* the array the last handler was given, as it reads afterwards
    pending,          \* the requests in flight (awaited promises, SWR fetches):
                      \* a bag, one copy per call that awaits
    intent,           \* the last user intent or settled request, with its input
    oldSocket,        \* the socket of the effect run before this one, if any
    objs              \* objs[i]: the first position of tasks that holds the very
                      \* object position i holds (one object may be held twice)

vars == <<variant, tasks, readyState, socketConnected, drag, out, prev, last, phase,
          twin, given, pending, intent, oldSocket, objs>>

---------------------------------------------------------------------------
(* Bounds of the model *)

\* number of distinct task identifiers that exist on the server
NumIds == 3

IdNames == <<"a", "b", "c", "d", "e">>
Ids == {IdNames[i] : i \in 1..NumIds}
Titles == {"t1", "t2"}
\* ranks a server payload may carry for a single task
Orders == 0..(NumIds - 1)
\* longest text typed into the title field or the prompt
MaxText == 2
\* indexes the drag library (or a caller) may hand to onDragEnd
DestIndexes == (0 - 1)..(NumIds + 1)

---------------------------------------------------------------------------
(* Data model *)

COLUMNS == <<"todo", "inprogress", "done", "unsure">>
ColumnIds == {COLUMNS[i] : i \in 1..Len(COLUMNS)}

Task == [id : Ids, title : Titles, column : ColumnIds, order : Orders]

\* the board this component instance is scoped to, and a foreign one
boardId == "b1"
BoardIds == {"", "b1", "b2"}      \* "" : the message carries no boardId

NoTask == [id |-> "", title |-> "", column |-> "", order |-> 0 - 1]

Range(s) == {s[i] : i \in 1..Len(s)}
IdsOf(s) == [i \in 1..Len(s) |-> s[i].id]

\* Array.prototype.join(",") on the identifiers
RECURSIVE Join(_)
Join(ids) ==
    IF Len(ids) = 0 THEN ""
    ELSE IF Len(ids) = 1 THEN ids[1]
    ELSE ids[1] \o "," \o Join(Tail(ids))

\* Text as it is typed: a sequence of characters, " " being white space
Chars == {" ", "x"}
Texts == UNION {[1..n -> Chars] : n \in 0..MaxText}

RECURSIVE TrimStart(_)
TrimStart(t) == IF Len(t) > 0 /\ t[1] = " " THEN TrimStart(Tail(t)) ELSE t
RECURSIVE TrimEnd(_)
TrimEnd(t) ==
    IF Len(t) > 0 /\ t[Len(t)] = " " THEN TrimEnd(SubSeq(t, 1, Len(t) - 1)) ELSE t
\* String.prototype.trim
Trim(t) == TrimEnd(TrimStart(t))

\* the string a text is, as it is stored in a title
RECURSIVE Str(_)
Str(t) == IF Len(t) = 0 THEN "" ELSE t[1] \o Str(Tail(t))

\* !text: the empty string is the only falsy text
Falsy(t) == Len(t) = 0

\* Array.prototype.splice: the start index as the engine normalises it
SpliceStart(len, start) ==
    IF start < 0 THEN (IF len + start < 0 THEN 0 ELSE len + start)
    ELSE IF start > len THEN len ELSE start

\* a removal that removes nothing
SpliceRemoveNothing(s, start) == s

\* arr.splice(start, 1)
SpliceRemove(s, start) ==
    LET k == SpliceStart(Len(s), start)
    IN  IF k < Len(s) THEN SubSeq(s, 1, k) \o SubSeq(s, k + 2, Len(s)) ELSE s

\* arr.splice(start, 0, x)
SpliceInsert(s, start, x) ==
    LET k == SpliceStart(Len(s), start)
    IN  SubSeq(s, 1, k) \o <<x>> \o SubSeq(s, k + 1, Len(s))

(* The task objects are shared between the arrays onDragEnd builds, so the *)
(* arrays are modelled as sequences of references into a heap h that maps  *)
(* each reference to the object's fields. The reference of an object is    *)
(* the first position of the cached array that holds it; the cached array  *)
(* may hold one object at several positions (os gives, for each position,  *)
(* the reference of its object), and a write through one is read at all.   *)

\* the references of an array of objects named by labels
Canon(labels) ==
    [i \in 1..Len(labels) |->
        CHOOSE j \in 1..i : labels[j] = labels[i] /\ \A k \in 1..(j - 1) : labels[k] # labels[i]]

\* refs.filter(t => t.column === col), on references
FilterColumn(h, refs, col) == SelectSeq(refs, LAMBDA r : h[r].column = col)

\* an insertion that puts a task before the tasks of its own rank
InsertByOrderBeforeTies(h, sorted, r) ==
    LET k == Cardinality({i \in 1..Len(sorted) : h[sorted[i]].order < h[r].order})
    IN  SubSeq(sorted, 1, k) \o <<r>> \o SubSeq(sorted, k + 1, Len(sorted))

InsertByOrder(h, sorted, r) ==
    LET k == Cardinality({i \in 1..Len(sorted) : h[sorted[i]].order <= h[r].order})
    IN  SubSeq(sorted, 1, k) \o <<r>> \o SubSeq(sorted, k + 1, Len(sorted))

\* .sort((a, b) => a.order - b.order): stable, ascending
RECURSIVE SortByOrder(_, _)
SortByOrder(h, refs) ==
    IF Len(refs) = 0 THEN <<>>
    ELSE InsertByOrder(h, SortByOrder(h, SubSeq(refs, 1, Len(refs) - 1)), refs[Len(refs)])

\* a renumbering that counts from one
RECURSIVE RenumberFromOne(_, _)
RenumberFromOne(h, refs) ==
    IF Len(refs) = 0 THEN h
    ELSE LET n == Len(refs)
             h1 == RenumberFromOne(h, SubSeq(refs, 1, n - 1))
         IN  [h1 EXCEPT ![refs[n]].order = n]

\* refs.forEach((task, index) => { task.order = index }), in array order
RECURSIVE Renumber(_, _)
Renumber(h, refs) ==
    IF Len(refs) = 0 THEN h
    ELSE LET n == Len(refs)
             h1 == Renumber(h, SubSeq(refs, 1, n - 1))
         IN  [h1 EXCEPT ![refs[n]].order = n - 1]

Positions(s) == [i \in 1..Len(s) |-> i]
Deref(h, refs) == [i \in 1..Len(refs) |-> h[refs[i]]]

\* the column's tasks sorted by order, as the render and onDragEnd compute it
ColumnTasks(ts, col) == Deref(ts, SortByOrder(ts, FilterColumn(ts, Positions(ts), col)))

\* grouped: the per-column view that is rendered
Grouped(ts) == [c \in ColumnIds |-> ColumnTasks(ts, c)]
GroupedIds(ts) == [c \in ColumnIds |-> IdsOf(ColumnTasks(ts, c))]

\* tasks.find(t => t.id === id): the first position holding the id, 0 if none
FindRef(ts, id) ==
    IF \E i \in 1..Len(ts) : ts[i].id = id
    THEN CHOOSE i \in 1..Len(ts) : ts[i].id = id /\ \A j \in 1..(i - 1) : ts[j].id # id
    ELSE 0

---------------------------------------------------------------------------
(* onDragEnd: the recomputation of the task array for a move *)

\* a move that forgets movedTask.column = destCol
MoveArraysKeepColumn(ts, os, moved, srcCol, srcIndex, destCol, destIndex) ==
    LET cur == os
        sourceTasks0 == SortByOrder(ts, FilterColumn(ts, cur, srcCol))
        destTasks0 == SortByOrder(ts, FilterColumn(ts, cur, destCol))
        sourceTasks1 == SpliceRemove(sourceTasks0, srcIndex)
        h1 == Renumber(ts, sourceTasks1)
    IN  IF srcCol = destCol
        THEN LET sourceTasks2 == SpliceInsert(sourceTasks1, destIndex, moved)
             IN  [heap |-> Renumber(h1, sourceTasks2),
                  cur |-> cur,
                  sourceTasks |-> sourceTasks2,
                  destTasks |-> destTasks0]
        ELSE LET destTasks1 == SpliceInsert(destTasks0, destIndex, moved)
             IN  [heap |-> Renumber(Renumber(h1, sourceTasks1), destTasks1),
                  cur |-> cur,
                  sourceTasks |-> sourceTasks1,
                  destTasks |-> destTasks1]

\* the heap after the source column is spliced and renumbered, the moved task
\* is reinserted (same column) or re-homed (other column), and both columns
\* are renumbered; with the source and destination arrays that result
MoveArrays(ts, os, moved, srcCol, srcIndex, destCol, destIndex) ==
    LET cur == os
        sourceTasks0 == SortByOrder(ts, FilterColumn(ts, cur, srcCol))
        destTasks0 == SortByOrder(ts, FilterColumn(ts, cur, destCol))
        sourceTasks1 == SpliceRemove(sourceTasks0, srcIndex)
        h1 == Renumber(ts, sourceTasks1)
    IN  IF srcCol = destCol
        THEN LET sourceTasks2 == SpliceInsert(sourceTasks1, destIndex, moved)
             IN  [heap |-> Renumber(h1, sourceTasks2),
                  cur |-> cur,
                  sourceTasks |-> sourceTasks2,
                  destTasks |-> destTasks0]
        ELSE LET h2 == [h1 EXCEPT ![moved].column = destCol]
                 destTasks1 == SpliceInsert(destTasks0, destIndex, moved)
             IN  [heap |-> Renumber(Renumber(h2, sourceTasks1), destTasks1),
                  cur |-> cur,
                  sourceTasks |-> sourceTasks1,
                  destTasks |-> destTasks1]

\* a concatenation that walks COLUMNS from its last column to its first
RECURSIVE ConcatColumnsBackwards(_, _, _, _)
ConcatColumnsBackwards(m, srcCol, destCol, k) ==
    IF k > Len(COLUMNS) THEN <<>>
    ELSE ConcatColumnsBackwards(m, srcCol, destCol, k + 1)
         \o (IF COLUMNS[k] = srcCol THEN m.sourceTasks
             ELSE IF COLUMNS[k] = destCol THEN m.destTasks
             ELSE SortByOrder(m.heap, FilterColumn(m.heap, m.cur, COLUMNS[k])))

\* COLUMNS.forEach(col => updatedTasks.push(...)), on references
RECURSIVE ConcatColumns(_, _, _, _)
ConcatColumns(m, srcCol, destCol, k) ==
    IF k > Len(COLUMNS) THEN <<>>
    ELSE (IF COLUMNS[k] = srcCol THEN m.sourceTasks
          ELSE IF COLUMNS[k] = destCol THEN m.destTasks
          ELSE SortByOrder(m.heap, FilterColumn(m.heap, m.cur, COLUMNS[k])))
         \o ConcatColumns(m, srcCol, destCol, k + 1)

\* updatedTasks, by value
UpdatedTasks(ts, os, moved, srcCol, srcIndex, destCol, destIndex) ==
    LET m == MoveArrays(ts, os, moved, srcCol, srcIndex, destCol, destIndex)
    IN  Deref(m.heap, ConcatColumns(m, srcCol, destCol, 1))

\* updatedTasks, by the objects it holds
UpdatedObjs(ts, os, moved, srcCol, srcIndex, destCol, destIndex) ==
    LET m == MoveArrays(ts, os, moved, srcCol, srcIndex, destCol, destIndex)
    IN  Canon(ConcatColumns(m, srcCol, destCol, 1))

\* movedTask as it is read after the recomputation (column and order)
MovedTask(ts, os, moved, srcCol, srcIndex, destCol, destIndex) ==
    MoveArrays(ts, os, moved, srcCol, srcIndex, destCol, destIndex).heap[moved]

---------------------------------------------------------------------------
(* ws.onmessage: folding one server message into the cached array *)

NoMsg == [type |-> "", boardId |-> "", task |-> NoTask, id |-> "", tasks |-> <<>>]

\* an insert without the duplicate check
ApplyCreatedAlways(ts, task) == Append(ts, task)

\* an insert that replaces the local task on a duplicate instead of keeping it
ApplyCreatedUpsert(ts, task) ==
    IF \E i \in 1..Len(ts) : ts[i].id = task.id
    THEN [i \in 1..Len(ts) |-> IF ts[i].id = task.id THEN task ELSE ts[i]]
    ELSE Append(ts, task)

\* case "task_created"
ApplyCreated(ts, task) ==
    IF \E i \in 1..Len(ts) : ts[i].id = task.id THEN ts ELSE Append(ts, task)

\* an update that merges the incoming fields and keeps the local title
ApplyUpdatedMerge(ts, task) ==
    [i \in 1..Len(ts) |->
        IF ts[i].id = task.id THEN [task EXCEPT !.title = ts[i].title] ELSE ts[i]]

\* case "task_updated"
ApplyUpdated(ts, task) ==
    [i \in 1..Len(ts) |-> IF ts[i].id = task.id THEN task ELSE ts[i]]

\* case "task_deleted"
ApplyDeleted(ts, id) == SelectSeq(ts, LAMBDA t : t.id # id)

\* a reorder that always takes the incoming array
ApplyReorderAlways(ts, incoming) == incoming

\* case "tasks_reorder"
ApplyReorder(ts, incoming) ==
    LET currentIds == Join(IdsOf(ts))
        newIds == Join(IdsOf(incoming))
    IN  IF currentIds = newIds THEN ts ELSE incoming

\* case "init" (src/unnamed/part_003 only)
ApplyInit(ts, incoming) == incoming

\* a handler without the board filter
NeverDiscarded(v, msg) == FALSE

\* if (msg.boardId && msg.boardId !== boardId) return;  (Board.tsx only)
Discarded(v, msg) == v = "scoped" /\ msg.boardId # "" /\ msg.boardId # boardId

\* a handler that empties the cache on a type it does not know
ReconcileClearsOnUnknown(v, ts, msg) ==
    IF msg.type \in {"init", "task_created", "task_updated", "task_deleted",
                     "tasks_reorder"}
    THEN ts ELSE <<>>

\* the array mutate() leaves in the cache after the handler ran on msg
Reconcile(v, ts, msg) ==
    IF Discarded(v, msg) THEN ts
    ELSE CASE msg.type = "init" /\ v = "single" -> ApplyInit(ts, msg.tasks)
           [] msg.type = "task_created" -> ApplyCreated(ts, msg.task)
           [] msg.type = "task_updated" -> ApplyUpdated(ts, msg.task)
           [] msg.type = "task_deleted" -> ApplyDeleted(ts, msg.id)
           [] msg.type = "tasks_reorder" -> ApplyReorder(ts, msg.tasks)
           [] OTHER -> ts

\* the objects of the array Reconcile leaves: msg.task is one object, put
\* at every position map replaces; the tasks of a parsed array are objects
\* of their own; filter and the kept array hold the objects they held
ReconcileObjs(v, ts, os, msg) ==
    IF Discarded(v, msg) THEN os
    ELSE CASE msg.type = "init" /\ v = "single" -> Positions(msg.tasks)
           [] msg.type = "task_created" ->
                IF \E i \in 1..Len(ts) : ts[i].id = msg.task.id THEN os
                ELSE Append(os, Len(ts) + 1)
           [] msg.type = "task_updated" ->
                [i \in 1..Len(ts) |->
                    IF ts[i].id = msg.task.id THEN FindRef(ts, msg.task.id) ELSE os[i]]
           [] msg.type = "task_deleted" ->
                LET kept == SelectSeq(Positions(ts), LAMBDA i : ts[i].id # msg.id)
                IN  Canon([k \in 1..Len(kept) |-> os[kept[k]]])
           [] msg.type = "tasks_reorder" ->
                IF Join(IdsOf(ts)) = Join(IdsOf(msg.tasks)) THEN os
                ELSE Positions(msg.tasks)
           [] OTHER -> os

Emission(kind, ts, task) == [kind |-> kind, tasks |-> ts, task |-> task]

\* mutate(fn) without the second argument revalidates: only task_updated
\* omits the `false`
MessageEmits(v, msg) ==
    IF ~Discarded(v, msg) /\ msg.type = "task_updated"
    THEN {Emission("revalidate", <<>>, NoTask)}
    ELSE {}

NoMove == [draggableId |-> "", srcCol |-> "", srcIndex |-> 0 - 1,
           destCol |-> "", destIndex |-> 0 - 1]

NoEmission == Emission("", <<>>, NoTask)

\* what goes over HTTP and is awaited (a refetch is the SWR fetcher's GET)
RequestKinds == {"http_post", "http_put", "http_delete", "revalidate"}

\* a request in flight and the handler whose continuation awaits it
Request(by, e) == [by |-> by, req |-> e]
Requests(by, emitted) == {Request(by, e) : e \in {x \in emitted : x.kind \in RequestKinds}}
\* one promise for each request a call of the handler emitted
RequestBag(by, emitted) == SetToBag(Requests(by, emitted))

NoIntent == [by |-> "", id |-> "", text |-> <<>>, answered |-> FALSE,
             req |-> NoEmission, ok |-> TRUE]

\* the handler runs in every client the server broadcasts to: tasks is this
\* client's cache, twin the cache of a second client on the same board
OnMessage(msg) ==
    /\ readyState = "OPEN"
    /\ tasks' = Reconcile(variant, tasks, msg)
    /\ objs' = ReconcileObjs(variant, tasks, objs, msg)
    /\ twin' = Reconcile(variant, twin, msg)
    /\ out' = MessageEmits(variant, msg)
    /\ pending' = pending (+) RequestBag("mutate", MessageEmits(variant, msg))
    /\ prev' = tasks
    /\ given' = tasks
    /\ last' = [op |-> "onmessage", msg |-> msg, move |-> NoMove]
    /\ intent' = NoIntent
    /\ phase' = IF phase < 2 THEN phase + 1 ELSE phase
    /\ UNCHANGED <<variant, readyState, socketConnected, drag, oldSocket>>

---------------------------------------------------------------------------
(* Drag and drop *)

NoDrag == [draggableId |-> "", srcCol |-> "", srcIndex |-> 0 - 1]

\* <Draggable draggableId={task.id} index={index}> inside <Droppable
\* droppableId={col.id}>: the library captures the source of the drag from
\* the rendered view when the drag starts
DragStart ==
    /\ drag = NoDrag
    /\ \E c \in ColumnIds : \E i \in 1..Len(ColumnTasks(tasks, c)) :
          drag' = [draggableId |-> ColumnTasks(tasks, c)[i].id,
                   srcCol |-> c, srcIndex |-> i - 1]
    /\ UNCHANGED <<variant, tasks, readyState, socketConnected, out, prev, last, phase,
                   twin, given, pending, intent, oldSocket, objs>>

\* early returns that miss the same-position check
DragProceedsAnyPosition(ts, d, destCol, destIndex) ==
    /\ destCol # ""
    /\ FindRef(ts, d.draggableId) # 0

\* whether onDragEnd gets past its early returns; destCol = "" is a drop
\* outside of any column (destination === null)
DragProceeds(ts, d, destCol, destIndex) ==
    /\ destCol # ""
    /\ ~(d.srcCol = destCol /\ d.srcIndex = destIndex)
    /\ FindRef(ts, d.draggableId) # 0

\* what onDragEnd leaves in the cache: mutate(updatedTasks, false)
DragResult(ts, os, d, destCol, destIndex) ==
    IF DragProceeds(ts, d, destCol, destIndex)
    THEN UpdatedTasks(ts, os, FindRef(ts, d.draggableId), d.srcCol, d.srcIndex,
                      destCol, destIndex)
    ELSE ts

\* the objects of the array onDragEnd leaves in the cache
DragObjs(ts, os, d, destCol, destIndex) ==
    IF DragProceeds(ts, d, destCol, destIndex)
    THEN UpdatedObjs(ts, os, FindRef(ts, d.draggableId), d.srcCol, d.srcIndex,
                     destCol, destIndex)
    ELSE os

\* the transport onDragEnd uses for the recomputed array
DragEmits(v, rs, ts, os, d, destCol, destIndex) ==
    IF ~DragProceeds(ts, d, destCol, destIndex) THEN {}
    ELSE IF rs = "OPEN"
    THEN {Emission("ws_reorder", DragResult(ts, os, d, destCol, destIndex), NoTask)}
    ELSE IF v = "scoped"
    THEN {Emission("http_put", <<>>,
                   [MovedTask(ts, os, FindRef(ts, d.draggableId), d.srcCol, d.srcIndex,
                              destCol, destIndex) EXCEPT !.title = ""])}
    ELSE {}

\* the objects of the array onDragEnd was given, as they read after it ran:
\* task.order = index and movedTask.column = destCol write to the objects the
\* cached array holds, [...sourceTasks] and filter copy the arrays only
DragLeaves(ts, os, d, destCol, destIndex) ==
    IF DragProceeds(ts, d, destCol, destIndex)
    THEN Deref(MoveArrays(ts, os, FindRef(ts, d.draggableId), d.srcCol, d.srcIndex,
                          destCol, destIndex).heap, os)
    ELSE ts

\* whether the try block reaches wsRef.current.send
DragSends(rs, ts, d, destCol, destIndex) ==
    DragProceeds(ts, d, destCol, destIndex) /\ rs = "OPEN"

\* what onDragEnd emits up to its first await; throws: send raised, which
\* the catch answers with mutate()
DragOutcome(v, rs, ts, os, d, destCol, destIndex, throws) ==
    IF throws /\ DragSends(rs, ts, d, destCol, destIndex)
    THEN {Emission("revalidate", <<>>, NoTask)}
    ELSE DragEmits(v, rs, ts, os, d, destCol, destIndex)

OnDragEnd(destCol, destIndex, throws) ==
    /\ drag # NoDrag
    /\ throws => DragSends(readyState, tasks, drag, destCol, destIndex)
    /\ tasks' = DragResult(tasks, objs, drag, destCol, destIndex)
    /\ objs' = DragObjs(tasks, objs, drag, destCol, destIndex)
    /\ out' = DragOutcome(variant, readyState, tasks, objs, drag, destCol, destIndex, throws)
    /\ pending' = pending (+)
            RequestBag("onDragEnd",
                     DragOutcome(variant, readyState, tasks, objs, drag, destCol, destIndex,
                                 throws))
    /\ drag' = NoDrag
    /\ prev' = tasks
    /\ given' = DragLeaves(tasks, objs, drag, destCol, destIndex)
    /\ last' = [op |-> "dragend", msg |-> NoMsg,
                move |-> [draggableId |-> drag.draggableId, srcCol |-> drag.srcCol,
                          srcIndex |-> drag.srcIndex, destCol |-> destCol,
                          destIndex |-> destIndex]]
    /\ intent' = [NoIntent EXCEPT !.by = "onDragEnd", !.id = drag.draggableId,
                                  !.ok = ~throws]
    /\ phase' = IF phase < 2 THEN phase + 1 ELSE phase
    /\ UNCHANGED <<variant, readyState, socketConnected, twin, oldSocket>>

DragEnd ==
    \/ OnDragEnd("", 0 - 1, FALSE)
    \/ \E c \in ColumnIds : \E i \in DestIndexes : OnDragEnd(c, i, FALSE)

\* a drop whose wsRef.current.send raises
DragEndThrows == \E c \in ColumnIds : \E i \in DestIndexes : OnDragEnd(c, i, TRUE)

---------------------------------------------------------------------------
(* The WebSocket of the session *)

NoOp == [op |-> "", msg |-> NoMsg, move |-> NoMove]

\* an onopen that is not tied to the connecting state
WsOpenAnyTime ==
    /\ readyState \in {"CONNECTING", "CLOSED"}
    /\ readyState' = "OPEN"
    /\ socketConnected' = TRUE
    /\ out' = {}
    /\ prev' = tasks
    /\ given' = tasks
    /\ last' = [NoOp EXCEPT !.op = "onopen"]
    /\ intent' = NoIntent
    /\ UNCHANGED <<variant, tasks, drag, phase, twin, pending, oldSocket, objs>>

\* ws.onopen = () => setSocketConnected(true)
WsOpen ==
    /\ readyState = "CONNECTING"
    /\ readyState' = "OPEN"
    /\ socketConnected' = TRUE
    /\ out' = {}
    /\ prev' = tasks
    /\ given' = tasks
    /\ last' = [NoOp EXCEPT !.op = "onopen"]
    /\ intent' = NoIntent
    /\ UNCHANGED <<variant, tasks, drag, phase, twin, pending, oldSocket, objs>>

\* ws.onclose = () => setSocketConnected(false): the connection failed or
\* was closed; the effect opens no other socket
WsClose ==
    /\ readyState \in {"CONNECTING", "OPEN"}
    /\ readyState' = "CLOSED"
    /\ socketConnected' = FALSE
    /\ out' = {}
    /\ prev' = tasks
    /\ given' = tasks
    /\ last' = [NoOp EXCEPT !.op = "onclose"]
    /\ intent' = NoIntent
    /\ UNCHANGED <<variant, tasks, drag, phase, twin, pending, oldSocket, objs>>

\* the effect runs again (boardId changed, or StrictMode runs it twice):
\* the cleanup calls ws.close() on the socket of the run before, whose
\* handlers stay attached, and the effect body opens a new socket and puts
\* it in wsRef; the flag is not touched
Rerun ==
    /\ oldSocket # "CLOSING"
    /\ oldSocket' = IF readyState = "CLOSED" THEN "CLOSED" ELSE "CLOSING"
    /\ readyState' = "CONNECTING"
    /\ out' = {}
    /\ prev' = tasks
    /\ given' = tasks
    /\ last' = [NoOp EXCEPT !.op = "rerun"]
    /\ intent' = NoIntent
    /\ UNCHANGED <<variant, tasks, socketConnected, drag, phase, twin, pending, objs>>

\* ws.onclose of the socket the cleanup closed: setSocketConnected(false)
OldClose ==
    /\ oldSocket = "CLOSING"
    /\ oldSocket' = "CLOSED"
    /\ socketConnected' = FALSE
    /\ out' = {}
    /\ prev' = tasks
    /\ given' = tasks
    /\ last' = [NoOp EXCEPT !.op = "onclose"]
    /\ intent' = NoIntent
    /\ UNCHANGED <<variant, tasks, readyState, drag, phase, twin, pending, objs>>

---------------------------------------------------------------------------
(* The CRUD intents: createTask, editTask, deleteTask *)

\* window.prompt: null when cancelled, the text otherwise
PromptAnswers ==
    {[cancelled |-> TRUE, text |-> <<>>]}
    \cup {[cancelled |-> FALSE, text |-> t] : t \in Texts}

\* if (!newTitle.trim()) return;
CreateRejected(text) == Falsy(Trim(text))

\* api.post(..., { title: newTitle.trim(), column: "todo" })
CreateRequest(text) ==
    Emission("http_post", <<>>, [NoTask EXCEPT !.title = Str(Trim(text)), !.column = "todo"])

CreateEmits(text) == IF CreateRejected(text) THEN {} ELSE {CreateRequest(text)}

\* createTask leaves the cache alone: it calls mutate nowhere
CreateTask(text) ==
    /\ out' = CreateEmits(text)
    /\ pending' = pending (+) RequestBag("createTask", CreateEmits(text))
    /\ prev' = tasks
    /\ given' = tasks
    /\ last' = [NoOp EXCEPT !.op = "createTask"]
    /\ intent' = [NoIntent EXCEPT !.by = "createTask", !.text = text, !.answered = TRUE,
                                  !.req = IF CreateRejected(text) THEN NoEmission
                                          ELSE CreateRequest(text)]
    /\ phase' = IF phase < 2 THEN phase + 1 ELSE phase
    /\ UNCHANGED <<variant, tasks, readyState, socketConnected, drag, twin, oldSocket, objs>>

\* Board.tsx: if (!newTitlePrompt?.trim()) return;
\* part_003:  if (!newTitlePrompt) return;
EditRejected(v, answer) ==
    \/ answer.cancelled
    \/ IF v = "scoped" THEN Falsy(Trim(answer.text)) ELSE Falsy(answer.text)

\* the title that is sent, and in part_003 written to the cache
EditTitle(v, answer) == IF v = "scoped" THEN Str(Trim(answer.text)) ELSE Str(answer.text)

EditRequest(v, id, answer) ==
    Emission("http_put", <<>>, [NoTask EXCEPT !.id = id, !.title = EditTitle(v, answer)])

EditEmits(v, id, answer) ==
    IF EditRejected(v, answer) THEN {} ELSE {EditRequest(v, id, answer)}

\* part_003: mutate(tasks.map(t => t.id === task.id ? {...t, title} : t), false)
\* before the request; Board.tsx waits for the server's message
EditResult(v, ts, id, answer) ==
    IF EditRejected(v, answer) \/ v = "scoped" THEN ts
    ELSE [i \in 1..Len(ts) |->
            IF ts[i].id = id THEN [ts[i] EXCEPT !.title = EditTitle(v, answer)] ELSE ts[i]]

\* the objects of the array editTask leaves: {...t, title} is an object of
\* its own at every position map replaces
EditObjs(v, ts, os, id, answer) ==
    IF EditRejected(v, answer) \/ v = "scoped" THEN os
    ELSE [i \in 1..Len(ts) |-> IF ts[i].id = id THEN i ELSE os[i]]

\* editTask(task) for the task rendered from position i of the cache
EditTask(i, answer) ==
    /\ i \in 1..Len(tasks)
    /\ tasks' = EditResult(variant, tasks, tasks[i].id, answer)
    /\ objs' = EditObjs(variant, tasks, objs, tasks[i].id, answer)
    /\ out' = EditEmits(variant, tasks[i].id, answer)
    /\ pending' = pending (+) RequestBag("editTask", EditEmits(variant, tasks[i].id, answer))
    /\ prev' = tasks
    /\ given' = tasks
    /\ last' = [NoOp EXCEPT !.op = "editTask"]
    /\ intent' = [NoIntent EXCEPT !.by = "editTask", !.id = tasks[i].id,
                                  !.text = answer.text, !.answered = ~answer.cancelled,
                                  !.req = IF EditRejected(variant, answer) THEN NoEmission
                                          ELSE EditRequest(variant, tasks[i].id, answer)]
    /\ phase' = IF phase < 2 THEN phase + 1 ELSE phase
    /\ UNCHANGED <<variant, readyState, socketConnected, drag, twin, oldSocket>>

\* Board.tsx: if (!confirm(...)) return;  part_003 asks nothing
DeleteRejected(v, confirmed) == v = "scoped" /\ ~confirmed

DeleteRequest(id) == Emission("http_delete", <<>>, [NoTask EXCEPT !.id = id])

DeleteEmits(v, id, confirmed) ==
    IF DeleteRejected(v, confirmed) THEN {} ELSE {DeleteRequest(id)}

\* part_003: mutate(tasks.filter(t => t.id !== task.id), false) before the
\* request; Board.tsx waits for the server's message
DeleteResult(v, ts, id, confirmed) ==
    IF v = "scoped" THEN ts ELSE SelectSeq(ts, LAMBDA t : t.id # id)

\* the objects of the array deleteTask leaves
DeleteObjs(v, ts, os, id, confirmed) ==
    IF v = "scoped" THEN os
    ELSE LET kept == SelectSeq(Positions(ts), LAMBDA i : ts[i].id # id)
         IN  Canon([k \in 1..Len(kept) |-> os[kept[k]]])

\* deleteTask(task) for the task rendered from position i of the cache
DeleteTask(i, confirmed) ==
    /\ i \in 1..Len(tasks)
    /\ variant = "single" => confirmed
    /\ tasks' = DeleteResult(variant, tasks, tasks[i].id, confirmed)
    /\ objs' = DeleteObjs(variant, tasks, objs, tasks[i].id, confirmed)
    /\ out' = DeleteEmits(variant, tasks[i].id, confirmed)
    /\ pending' = pending (+) RequestBag("deleteTask", DeleteEmits(variant, tasks[i].id, confirmed))
    /\ prev' = tasks
    /\ given' = tasks
    /\ last' = [NoOp EXCEPT !.op = "deleteTask"]
    /\ intent' = [NoIntent EXCEPT !.by = "deleteTask", !.id = tasks[i].id,
                                  !.answered = confirmed,
                                  !.req = IF DeleteRejected(variant, confirmed) THEN NoEmission
                                          ELSE DeleteRequest(tasks[i].id)]
    /\ phase' = IF phase < 2 THEN phase + 1 ELSE phase
    /\ UNCHANGED <<variant, readyState, socketConnected, drag, twin, oldSocket>>

---------------------------------------------------------------------------
(* The continuations: what runs when an awaited request settles *)

\* a catch in onDragEnd that only logs
SettleEmitsLogOnly(v, r, ok) == {}

\* onDragEnd: catch { mutate() }; createTask of part_003 awaits outside of
\* any try, so the rejection leaves the handler; every other catch logs
SettleEmits(v, r, ok) ==
    IF ok THEN {}
    ELSE IF r.by = "onDragEnd" THEN {Emission("revalidate", <<>>, NoTask)}
    ELSE IF r.by = "createTask" /\ v = "single" THEN {Emission("throw", <<>>, NoTask)}
    ELSE {}

\* the request r is answered (ok) or fails; no continuation touches the cache
Settle(r, ok) ==
    /\ BagIn(r, pending)
    /\ r.req.kind # "revalidate"
    /\ out' = SettleEmits(variant, r, ok)
    /\ pending' = (pending (-) SetToBag({r})) (+) RequestBag(r.by, SettleEmits(variant, r, ok))
    /\ prev' = tasks
    /\ given' = tasks
    /\ last' = [NoOp EXCEPT !.op = "settled"]
    /\ intent' = [NoIntent EXCEPT !.by = r.by, !.id = r.req.task.id, !.answered = TRUE,
                                  !.req = r.req, !.ok = ok]
    /\ UNCHANGED <<variant, tasks, readyState, socketConnected, drag, phase, twin, oldSocket, objs>>

\* the SWR fetch behind mutate() resolves with the server's list s, which
\* becomes the cache data
Fetched(r, s) ==
    /\ BagIn(r, pending)
    /\ r.req.kind = "revalidate"
    /\ tasks' = s
    /\ objs' = Positions(s)
    /\ out' = {}
    /\ pending' = pending (-) SetToBag({r})
    /\ prev' = tasks
    /\ given' = tasks
    /\ last' = [NoOp EXCEPT !.op = "fetched"]
    /\ intent' = [NoIntent EXCEPT !.by = r.by, !.answered = TRUE,
                                  !.req = Emission("revalidate", s, NoTask)]
    /\ UNCHANGED <<variant, readyState, socketConnected, drag, phase, twin, oldSocket>>

---------------------------------------------------------------------------
(* The environment: what the server and the transport may deliver *)

\* arrays as the server snapshots them: columns in COLUMNS order, ranks
\* 0..n-1 within each column, identifiers distinct
Runs(n) == {c \in [1..n -> 1..Len(COLUMNS)] : \A i \in 1..(n - 1) : c[i] <= c[i + 1]}
Arrangements(n) == {q \in [1..n -> Ids] : \A i, j \in 1..n : i # j => q[i] # q[j]}
RankIn(c, i) == Cardinality({j \in 1..(i - 1) : c[j] = c[i]})
Snapshots ==
    UNION {{[i \in 1..n |-> [id |-> q[i], title |-> "t1", column |-> COLUMNS[c[i]],
                             order |-> RankIn(c, i)]] : q \in Arrangements(n), c \in Runs(n)}
           : n \in 0..NumIds}

MessagesOf(b) ==
    {[NoMsg EXCEPT !.type = ty, !.boardId = b, !.tasks = s]
        : ty \in {"init", "tasks_reorder"}, s \in Snapshots}
    \cup {[NoMsg EXCEPT !.type = ty, !.boardId = b, !.task = t]
        : ty \in {"task_created", "task_updated"}, t \in Task}
    \cup {[NoMsg EXCEPT !.type = "task_deleted", !.boardId = b, !.id = i] : i \in Ids}
    \cup {[NoMsg EXCEPT !.type = "pong", !.boardId = b]}
Messages == UNION {MessagesOf(b) : b \in BoardIds}

Reverse(s) == [i \in 1..Len(s) |-> s[Len(s) + 1 - i]]

\* arrays as GET /tasks may list them: a snapshot, in either direction
Listings == Snapshots \cup {Reverse(s) : s \in Snapshots}

\* the board of the examples: a, b, c in todo
ExampleBefore ==
    <<[id |-> "a", title |-> "t1", column |-> "todo", order |-> 0],
      [id |-> "b", title |-> "t1", column |-> "todo", order |-> 1],
      [id |-> "c", title |-> "t1", column |-> "todo", order |-> 2]>>

\* lists the server may answer a refetch with
FetchAnswers == {<<>>, ExampleBefore}

---------------------------------------------------------------------------
(* Specifications *)

\* a mounted component holding a fetched snapshot
InitLoaded ==
    /\ variant \in {"scoped", "single"}
    /\ tasks \in Listings
    /\ readyState \in {"OPEN", "CLOSED"}
    /\ socketConnected = (readyState = "OPEN")
    /\ drag = NoDrag
    /\ out = {}
    /\ prev = tasks
    /\ last = NoOp
    /\ phase = 0
    /\ twin = tasks
    /\ given = tasks
    /\ pending = EmptyBag
    /\ intent = NoIntent
    /\ oldSocket = "NONE"
    /\ objs = Positions(tasks)

\* one move, from any listing, with the channel open or closed
FirstDrag == phase = 0 /\ DragStart
NextMove == FirstDrag \/ DragEnd
SpecMove == InitLoaded /\ [][NextMove]_vars

\* one move from a server snapshot and its dispatch: the send may raise,
\* the fallback request settles, and a refetch that was caused is answered
InitSnapshot == InitLoaded /\ tasks \in Snapshots
MoveSettles == \E r \in BagToSet(pending) : \E ok \in BOOLEAN : Settle(r, ok)
Refetched == \E r \in BagToSet(pending) : \E s \in FetchAnswers : Fetched(r, s)
NextDispatch == FirstDrag \/ DragEnd \/ DragEndThrows \/ MoveSettles \/ Refetched
SpecDispatch == InitSnapshot /\ [][NextDispatch]_vars

\* one server message, then the same message delivered once more
Deliver == phase = 0 /\ \E msg \in Messages : OnMessage(msg)
Redeliver == phase = 1 /\ last.op = "onmessage" /\ OnMessage(last.msg)
NextReconcile == Deliver \/ Redeliver
SpecReconcile == InitLoaded /\ [][NextReconcile]_vars

\* caches two clients may hold before the server's snapshot arrives
TwinStates ==
    {<<>>, ExampleBefore,
     <<[id |-> "b", title |-> "t2", column |-> "done", order |-> 0]>>}

\* two clients of one board with caches of their own
InitTwins ==
    /\ variant \in {"scoped", "single"}
    /\ tasks \in TwinStates
    /\ twin \in TwinStates
    /\ readyState = "OPEN"
    /\ socketConnected = TRUE
    /\ drag = NoDrag
    /\ out = {}
    /\ prev = tasks
    /\ given = tasks
    /\ last = NoOp
    /\ phase = 0
    /\ pending = EmptyBag
    /\ intent = NoIntent
    /\ oldSocket = "NONE"
    /\ objs = Positions(tasks)

\* both clients get the server's init, then one more message
Snapshot ==
    /\ phase = 0
    /\ \E msg \in Messages :
          msg.type = "init" /\ msg.boardId \in {"", boardId} /\ OnMessage(msg)
Follow == phase = 1 /\ \E msg \in Messages : msg.type # "init" /\ OnMessage(msg)
NextConverge == Snapshot \/ Follow
SpecConverge == InitTwins /\ [][NextConverge]_vars

\* a component that has just mounted: the list is fetched, the socket is
\* connecting
InitMounted ==
    /\ variant \in {"scoped", "single"}
    /\ tasks \in Listings
    /\ readyState = "CONNECTING"
    /\ socketConnected = FALSE
    /\ drag = NoDrag
    /\ out = {}
    /\ prev = tasks
    /\ given = tasks
    /\ last = NoOp
    /\ phase = 0
    /\ twin = tasks
    /\ pending = EmptyBag
    /\ intent = NoIntent
    /\ oldSocket = "NONE"
    /\ objs = Positions(tasks)

\* one session of the socket and one user intent; the request of the intent
\* settles, and the server broadcasts the task a successful create made
FirstIntent ==
    /\ phase = 0
    /\ \/ \E text \in Texts : CreateTask(text)
       \/ \E i \in 1..NumIds : \E answer \in PromptAnswers : EditTask(i, answer)
       \/ \E i \in 1..NumIds : \E confirmed \in BOOLEAN : DeleteTask(i, confirmed)
IntentSettles == \E r \in BagToSet(pending) : \E ok \in BOOLEAN : Settle(r, ok)
Broadcast ==
    /\ phase = 1 /\ last.op = "settled" /\ intent.by = "createTask" /\ intent.ok
    /\ \E id \in Ids :
          OnMessage([NoMsg EXCEPT !.type = "task_created", !.boardId = boardId,
                        !.task = [id |-> id, title |-> intent.req.task.title,
                                  column |-> "todo",
                                  order |-> Len(ColumnTasks(tasks, "todo"))]])
NextSession == WsOpen \/ WsClose \/ FirstIntent \/ IntentSettles \/ Broadcast
SpecSession == InitMounted /\ [][NextSession]_vars

\* the sessions of a mounted component: the socket opens and closes, and
\* the effect may run again
NextSessions == WsOpen \/ WsClose \/ Rerun \/ OldClose
SpecSessions == InitMounted /\ [][NextSessions]_vars

\* two clients of one board hold the same snapshot over open channels; one
\* moves a task, and the server broadcasts the array it was sent to both
InitShared == InitSnapshot /\ readyState = "OPEN"
ReorderBroadcast ==
    /\ phase = 1 /\ last.op = "dragend"
    /\ \E e \in out :
          /\ e.kind = "ws_reorder"
          /\ OnMessage([NoMsg EXCEPT !.type = "tasks_reorder",
                                     !.boardId = IF variant = "scoped" THEN boardId ELSE "",
                                     !.tasks = e.tasks])
\* a drop on a position the rendered column offers
DropInView ==
    \E c \in ColumnIds : \E i \in 0..Len(ColumnTasks(tasks, c)) : OnDragEnd(c, i, FALSE)
NextShared == FirstDrag \/ DropInView \/ ReorderBroadcast
SpecShared == InitShared /\ [][NextShared]_vars

\* a server message for the own board is handled while a drag is in
\* progress, between the capture of its source and the drop
Events ==
    {msg \in MessagesOf(boardId) :
        msg.type \in {"task_created", "task_updated", "task_deleted", "tasks_reorder"}}
Interleaved == phase = 0 /\ drag # NoDrag /\ \E msg \in Events : OnMessage(msg)
\* the board has room for one more task of the server
InitRoom == InitShared /\ Len(tasks) < NumIds
NextInterleave == FirstDrag \/ Interleaved \/ DropInView
SpecInterleave == InitRoom /\ [][NextInterleave]_vars

\* two steps of a client with an open channel, in any order: a message of
\* the own board is handled, a drag is dropped while its captured source
\* still is the dragged task's place in the view, a task is renamed or
\* deleted; a drag may start before either step
InitIds == InitTwins /\ twin = tasks
Grab == phase < 2 /\ DragStart
DragReferencesDragged ==
    /\ drag # NoDrag
    /\ drag.srcIndex < Len(ColumnTasks(tasks, drag.srcCol))
    /\ ColumnTasks(tasks, drag.srcCol)[drag.srcIndex + 1].id = drag.draggableId
Handled == phase < 2 /\ \E msg \in MessagesOf(boardId) : OnMessage(msg)
Dropped == phase < 2 /\ DragReferencesDragged /\ DragEnd
Renamed == phase < 2 /\ \E i \in 1..NumIds : \E answer \in PromptAnswers : EditTask(i, answer)
Removed == phase < 2 /\ \E i \in 1..NumIds : \E confirmed \in BOOLEAN : DeleteTask(i, confirmed)
NextIds == Grab \/ Handled \/ Dropped \/ Renamed \/ Removed
SpecIds == InitIds /\ [][NextIds]_vars

---------------------------------------------------------------------------
(* Properties of the move (checked under SpecMove) *)

\* the input of the last onDragEnd
mv == last.move

RemoveAt(s, i) == [k \in 1..(Len(s) - 1) |-> IF k < i THEN s[k] ELSE s[k + 1]]
InsertAt(s, i, x) ==
    [k \in 1..(Len(s) + 1) |-> IF k < i THEN s[k] ELSE IF k = i THEN x ELSE s[k - 1]]
RanksFromZero(col) == \A k \in 1..Len(col) : col[k].order = k - 1

\* the source index is the moved task's position in its rank-sorted column
SourceReferencesMoved ==
    /\ mv.srcIndex \in 0..(Len(ColumnTasks(prev, mv.srcCol)) - 1)
    /\ ColumnTasks(prev, mv.srcCol)[mv.srcIndex + 1].id = mv.draggableId

\* C1: a drop on the position the drag started from leaves the cached array
\* unchanged by value and emits nothing, neither on the channel nor as a
\* request
C1_NoopMove ==
    (last.op = "dragend" /\ mv.destCol = mv.srcCol /\ mv.destIndex = mv.srcIndex)
        => (tasks = prev /\ out = {})

\* a drop in place happened on an open channel, on an array a recomputation
\* would have rearranged
C1_Witness ==
    /\ last.op = "dragend" /\ mv.destCol = mv.srcCol /\ mv.destIndex = mv.srcIndex
    /\ readyState = "OPEN"
    /\ Len(prev) >= 2
    /\ prev \notin Snapshots

ExampleMove ==
    [draggableId |-> "a", srcCol |-> "todo", srcIndex |-> 0,
     destCol |-> "done", destIndex |-> 0]

\* C2: a move to another column, from source index = the moved task's position
\* among n, to a destination index within the m tasks of the destination:
\* the source column keeps its other tasks in order with ranks 0..n-2, the
\* moved task's column is the destination, and the destination column has
\* ranks 0..m with the moved task at the destination index and its other
\* tasks in their previous order. todo = [a, b, c], done = [] with a moved
\* from todo 0 to done 0 gives todo = [b(0), c(1)], done = [a(0)].
C2_CrossColumnMove ==
    /\ (/\ last.op = "dragend" /\ mv.destCol # "" /\ mv.destCol # mv.srcCol
        /\ SourceReferencesMoved
        /\ mv.destIndex \in 0..Len(ColumnTasks(prev, mv.destCol)))
       => LET newSrc == ColumnTasks(tasks, mv.srcCol)
              newDst == ColumnTasks(tasks, mv.destCol)
          IN  /\ IdsOf(newSrc) = RemoveAt(IdsOf(ColumnTasks(prev, mv.srcCol)), mv.srcIndex + 1)
              /\ RanksFromZero(newSrc)
              /\ \A i \in 1..Len(tasks) :
                    tasks[i].id = mv.draggableId => tasks[i].column = mv.destCol
              /\ IdsOf(newDst) = InsertAt(IdsOf(ColumnTasks(prev, mv.destCol)),
                                          mv.destIndex + 1, mv.draggableId)
              /\ RanksFromZero(newDst)
    /\ (last.op = "dragend" /\ prev = ExampleBefore /\ mv = ExampleMove)
       => /\ Grouped(tasks)["todo"] =
                <<[id |-> "b", title |-> "t1", column |-> "todo", order |-> 0],
                  [id |-> "c", title |-> "t1", column |-> "todo", order |-> 1]>>
          /\ Grouped(tasks)["done"] =
                <<[id |-> "a", title |-> "t1", column |-> "done", order |-> 0]>>
          /\ Len(tasks) = 3

\* the move of the example was made
C2_Witness == last.op = "dragend" /\ prev = ExampleBefore /\ mv = ExampleMove

\* C3: a reorder within one column of n tasks, from source index = the moved
\* task's position to another index of the column: the column has ranks
\* exactly 0..n-1, the moved task has rank = destination index and the other
\* n-1 tasks keep their relative order
C3_SameColumnReorder ==
    (/\ last.op = "dragend" /\ mv.destCol = mv.srcCol /\ mv.destIndex # mv.srcIndex
     /\ SourceReferencesMoved
     /\ mv.destIndex \in 0..(Len(ColumnTasks(prev, mv.srcCol)) - 1))
    => LET old == ColumnTasks(prev, mv.srcCol)
           new == ColumnTasks(tasks, mv.srcCol)
       IN  /\ Len(new) = Len(old)
           /\ RanksFromZero(new)
           /\ new[mv.destIndex + 1].id = mv.draggableId
           /\ new[mv.destIndex + 1].order = mv.destIndex
           /\ RemoveAt(IdsOf(new), mv.destIndex + 1) = RemoveAt(IdsOf(old), mv.srcIndex + 1)

\* the first of three tasks of a column was dropped on the last position
C3_Witness ==
    /\ last.op = "dragend" /\ mv.destCol = mv.srcCol
    /\ SourceReferencesMoved
    /\ Len(ColumnTasks(prev, mv.srcCol)) = 3
    /\ mv.srcIndex = 0 /\ mv.destIndex = 2
    /\ tasks # prev

---------------------------------------------------------------------------
(* Properties of the reconciliation (checked under SpecReconcile) *)

\* the last handler was ws.onmessage and it got past the board filter
Processed(type) ==
    /\ last.op = "onmessage"
    /\ last.msg.type = type
    /\ ~Discarded(variant, last.msg)

HasId(ts, id) == \E i \in 1..Len(ts) : ts[i].id = id

\* C4: a tasks_reorder whose identifier sequence is the local one keeps the
\* cached array as it is and emits nothing; one whose identifier sequence
\* differs replaces the cached array by the incoming one
C4_ReorderSameIdsKept ==
    Processed("tasks_reorder") =>
        /\ IdsOf(last.msg.tasks) = IdsOf(prev) => (tasks = prev /\ out = {})
        /\ IdsOf(last.msg.tasks) # IdsOf(prev) => tasks = last.msg.tasks

\* a reorder with the local identifier sequence but other columns or ranks
\* was processed
C4_Witness ==
    /\ Processed("tasks_reorder")
    /\ IdsOf(last.msg.tasks) = IdsOf(prev)
    /\ last.msg.tasks # prev
    /\ Len(prev) >= 2

\* C5: after a tasks_reorder is processed, the columns of the cached array
\* and the identifier sequence of each column are those of the array the
\* message carried
C5_LastReorderWins ==
    Processed("tasks_reorder") => GroupedIds(tasks) = GroupedIds(last.msg.tasks)

\* C6: a task_created inserts the task when its identifier is not held, and
\* changes nothing when it is
C6_CreatedDedup ==
    Processed("task_created") =>
        /\ ~HasId(prev, last.msg.task.id) => tasks = Append(prev, last.msg.task)
        /\ HasId(prev, last.msg.task.id) => tasks = prev

\* a task_created for an identifier held locally, with other fields, was
\* processed
C6_Witness ==
    /\ Processed("task_created")
    /\ HasId(prev, last.msg.task.id)
    /\ last.msg.task \notin Range(prev)
    /\ Len(prev) >= 2

\* C7: a task_updated for an identifier held locally replaces that task by
\* the whole incoming object and leaves every other task, and every
\* position, as it was
C7_UpdatedReplacesWhole ==
    (Processed("task_updated") /\ HasId(prev, last.msg.task.id)) =>
        /\ Len(tasks) = Len(prev)
        /\ \A i \in 1..Len(prev) :
              /\ prev[i].id = last.msg.task.id => tasks[i] = last.msg.task
              /\ prev[i].id # last.msg.task.id => tasks[i] = prev[i]

\* an update changing the title and the column of one of several tasks was
\* processed
C7_Witness ==
    /\ Processed("task_updated")
    /\ Len(prev) >= 2
    /\ \E i \in 1..Len(prev) :
          /\ prev[i].id = last.msg.task.id
          /\ prev[i].title # last.msg.task.title
          /\ prev[i].column # last.msg.task.column

\* C8: a task_updated or task_deleted for an identifier not held locally
\* leaves the cached array as it was and has no other effect: no request,
\* no refetch
C8_UnknownIdSilent ==
    /\ (Processed("task_updated") /\ ~HasId(prev, last.msg.task.id))
          => (tasks = prev /\ out = {})
    /\ (Processed("task_deleted") /\ ~HasId(prev, last.msg.id))
          => (tasks = prev /\ out = {})

\* C9: delivering a message a second time right after the first leaves the
\* cached array as the first delivery left it
C9_Idempotent == (last.op = "onmessage" /\ phase = 2) => tasks = prev

\* a task_created that the first delivery inserted was delivered again
C9_Witness ==
    /\ Processed("task_created") /\ phase = 2
    /\ last.msg.task.title = "t2"
    /\ last.msg.task \in Range(tasks)
    /\ Len(tasks) >= 2

Contiguous(ts) == \A c \in ColumnIds : RanksFromZero(ColumnTasks(ts, c))

\* the ranks a message carries fit the local array: a created task goes to
\* the end of its column, an updated task keeps its column and rank (init
\* and tasks_reorder carry snapshots, task_deleted carries no rank)
PayloadFits ==
    CASE last.msg.type = "task_created" ->
            last.msg.task.order = Len(ColumnTasks(prev, last.msg.task.column))
      [] last.msg.type = "task_updated" ->
            \A i \in 1..Len(prev) :
               prev[i].id = last.msg.task.id
                  => (prev[i].column = last.msg.task.column
                      /\ prev[i].order = last.msg.task.order)
      [] OTHER -> TRUE

\* C10: after an init, task_created, task_updated, task_deleted or accepted
\* tasks_reorder is processed, the ranks of every column are exactly 0..n-1
\* (read in the claim's favour: the array was contiguous before, and the
\* ranks the message carries fit it)
C10_RankContiguity ==
    (/\ \/ Processed("init")
        \/ Processed("task_created")
        \/ Processed("task_updated")
        \/ Processed("task_deleted")
        \/ (Processed("tasks_reorder") /\ tasks = last.msg.tasks)
     /\ Contiguous(prev)
     /\ PayloadFits)
    => Contiguous(tasks)

---------------------------------------------------------------------------
(* Properties of two clients (checked under SpecConverge) *)

\* C11: two clients that started from different caches and got the same
\* init, and then the same message after it, show the same identifier
\* sequence in every column
C11_Convergence == phase >= 1 => GroupedIds(tasks) = GroupedIds(twin)

---------------------------------------------------------------------------
(* Properties of init (checked under SpecReconcile) *)

\* C12: an init that is processed replaces the cached array by the snapshot
\* it carries, whatever the array was
C12_InitReplaces == Processed("init") => tasks = last.msg.tasks

---------------------------------------------------------------------------
(* Properties of the move and its dispatch (checked under SpecMove and SpecDispatch) *)

\* the last handler was an onDragEnd that got past its early returns, for a
\* drag taken from the rendered view and dropped on a position of a column
Moved ==
    /\ last.op = "dragend"
    /\ mv.destCol # ""
    /\ ~(mv.destCol = mv.srcCol /\ mv.destIndex = mv.srcIndex)
    /\ SourceReferencesMoved
    /\ mv.destIndex \in 0..(Len(ColumnTasks(prev, mv.destCol))
                             - (IF mv.destCol = mv.srcCol THEN 1 ELSE 0))

\* C13: a move does not modify the array it was given: read after the move,
\* every task of the pre-move array has the column and the rank it had
\* before (the pre-move array being a server snapshot)
C13_MovePure == (Moved /\ prev \in Snapshots) => given = prev

\* C14: a move uses exactly one transport: on an open channel one reorder
\* message with the whole recomputed array and no request; otherwise no
\* message and one update request with the moved task's new column and rank
\* only (the send itself not failing)
C14_OneTransport ==
    (Moved /\ intent.ok) =>
        /\ readyState = "OPEN" => out = {Emission("ws_reorder", tasks, NoTask)}
        /\ readyState # "OPEN" =>
              \E i \in 1..Len(tasks) :
                 /\ tasks[i].id = mv.draggableId
                 /\ out = {Emission("http_put", <<>>,
                                    [id |-> mv.draggableId, title |-> "",
                                     column |-> tasks[i].column,
                                     order |-> tasks[i].order])}

\* C17: a move whose dispatch fails (send throws, or the fallback request is
\* rejected) triggers a refetch, and the answer of the refetch becomes the
\* cached array; a move whose dispatch succeeds triggers none
C17_FailureRefetches ==
    /\ last.op = "dragend" =>
          (Emission("revalidate", <<>>, NoTask) \in out <=> ~intent.ok)
    /\ (last.op = "settled" /\ intent.by = "onDragEnd") =>
          /\ intent.ok => (out = {} /\ pending = EmptyBag)
          /\ ~intent.ok =>
                /\ out = {Emission("revalidate", <<>>, NoTask)}
                /\ pending = SetToBag({Request("onDragEnd", Emission("revalidate", <<>>, NoTask))})
    /\ (last.op = "fetched" /\ intent.by = "onDragEnd") =>
          (tasks = intent.req.tasks /\ pending = EmptyBag)

\* the fallback request of a move over a closed channel was rejected, and
\* the refetch it caused replaced the moved array by the server's list
C17_Witness ==
    /\ last.op = "fetched" /\ intent.by = "onDragEnd"
    /\ variant = "scoped" /\ readyState = "CLOSED"
    /\ Len(prev) >= 2
    /\ tasks # prev
    /\ tasks = intent.req.tasks

---------------------------------------------------------------------------
(* Properties of the board filter (checked under SpecReconcile) *)

\* C18: the board-scoped component leaves the cached array as it was, and
\* emits nothing, for a message that carries another board's id; a message
\* with no boardId or with the own boardId is handled by its type (a
\* task_deleted removes the task, a task_created appends it)
C18_ForeignBoardDiscarded ==
    last.op = "onmessage" =>
        /\ (variant = "scoped" /\ last.msg.boardId \notin {"", boardId})
              => (tasks = prev /\ out = {})
        /\ (last.msg.boardId \in {"", boardId} /\ last.msg.type = "task_deleted"
            /\ HasId(prev, last.msg.id))
              => (~HasId(tasks, last.msg.id) /\ Len(tasks) < Len(prev))
        /\ (last.msg.boardId \in {"", boardId} /\ last.msg.type = "task_created"
            /\ ~HasId(prev, last.msg.task.id))
              => tasks = Append(prev, last.msg.task)

\* a task_deleted of another board naming a task held locally was delivered
\* to the board-scoped component
C18_Witness ==
    /\ last.op = "onmessage" /\ variant = "scoped"
    /\ last.msg.boardId = "b2"
    /\ last.msg.type = "task_deleted"
    /\ HasId(prev, last.msg.id)
    /\ Len(prev) >= 2
    /\ tasks = prev

---------------------------------------------------------------------------
(* Properties of the intents and the session (checked under SpecSession) *)

\* the last handler was an intent that issued its request
Issued(op) == last.op = op /\ intent.req # NoEmission

\* C15: editTask and deleteTask write to the cached array before their
\* request settles (the title is replaced, the task is removed); createTask
\* and the settling of its request leave the cached array as it was, and the
\* new task is appended when its task_created is processed
C15_OptimisticEditDelete ==
    /\ Issued("editTask") =>
          /\ BagIn(Request("editTask", intent.req), pending)
          /\ tasks = [i \in 1..Len(prev) |->
                        IF prev[i].id = intent.id
                        THEN [prev[i] EXCEPT !.title = intent.req.task.title]
                        ELSE prev[i]]
    /\ Issued("deleteTask") =>
          /\ BagIn(Request("deleteTask", intent.req), pending)
          /\ tasks = SelectSeq(prev, LAMBDA t : t.id # intent.id)
    /\ last.op = "createTask" => tasks = prev
    /\ (last.op = "settled" /\ intent.by = "createTask") => tasks = prev
    /\ (Processed("task_created") /\ ~HasId(prev, last.msg.task.id))
          => tasks = Append(prev, last.msg.task)

\* C16: a createTask or editTask whose text is empty or white space only
\* leaves the cached array as it was and issues nothing
C16_EmptyTitleRejected ==
    (/\ last.op \in {"createTask", "editTask"}
     /\ intent.answered
     /\ Len(Trim(intent.text)) = 0)
    => (tasks = prev /\ out = {} /\ pending = EmptyBag)

\* C19: the flag turns true only in ws.onopen of a connecting socket, every
\* close turns it false, and after a close the socket stays closed and the
\* flag false
C19_StatusOrder ==
    [][/\ (~socketConnected /\ socketConnected')
            => (last'.op = "onopen" /\ readyState = "CONNECTING" /\ readyState' = "OPEN")
       /\ (readyState # "CLOSED" /\ readyState' = "CLOSED")
            => (last'.op = "onclose" /\ ~socketConnected')
       /\ readyState = "CLOSED" => (readyState' = "CLOSED" /\ ~socketConnected')
       /\ socketConnected' => readyState' = "OPEN"]_vars

\* the socket was closed after a request was issued, and a later handler ran
\* with the flag false
C19_Witness ==
    /\ readyState = "CLOSED" /\ ~socketConnected
    /\ last.op = "settled"
    /\ phase = 1

\* C20: when the request of an editTask or deleteTask is rejected, the
\* cached array keeps what the intent wrote (the requested title, the task
\* gone), and the handler emits nothing: no refetch, no error
C20_NoRollback ==
    (last.op = "settled" /\ ~intent.ok) =>
        /\ intent.by = "editTask" =>
              /\ tasks = prev /\ out = {}
              /\ \A i \in 1..Len(tasks) :
                    tasks[i].id = intent.id => tasks[i].title = intent.req.task.title
        /\ intent.by = "deleteTask" =>
              (tasks = prev /\ out = {} /\ ~HasId(tasks, intent.id))

---------------------------------------------------------------------------
(* Properties of the array a move produces (checked under SpecMove) *)

\* the last handler was an onDragEnd that got past its early returns, for a
\* drag taken from the rendered view, whatever the destination index
MovedAnywhere ==
    /\ last.op = "dragend"
    /\ mv.destCol # ""
    /\ ~(mv.destCol = mv.srcCol /\ mv.destIndex = mv.srcIndex)
    /\ SourceReferencesMoved

\* the columns of ts one after the other, from column k of COLUMNS on
RECURSIVE ColumnsInOrder(_, _)
ColumnsInOrder(ts, k) ==
    IF k > Len(COLUMNS) THEN <<>>
    ELSE ColumnTasks(ts, COLUMNS[k]) \o ColumnsInOrder(ts, k + 1)

\* C21: the array a move produces is its todo, inprogress, done and unsure
\* columns one after the other, each sorted by rank; the source and the
\* destination column are ranked 0..n-1 and the tasks of every other column
\* are the ones held before, with column and rank unchanged
C21_ColumnMajorOutput ==
    MovedAnywhere =>
        /\ tasks = ColumnsInOrder(tasks, 1)
        /\ RanksFromZero(ColumnTasks(tasks, mv.srcCol))
        /\ RanksFromZero(ColumnTasks(tasks, mv.destCol))
        /\ \A c \in ColumnIds \ {mv.srcCol, mv.destCol} :
              ColumnTasks(tasks, c) = ColumnTasks(prev, c)

\* a task was moved from done to todo on a board that was listed from the
\* last column to the first and holds a task in a third column
C21_Witness ==
    /\ MovedAnywhere
    /\ mv.srcCol = "done" /\ mv.destCol = "todo"
    /\ prev \notin Snapshots
    /\ Len(ColumnTasks(prev, "inprogress")) = 1
    /\ Len(ColumnTasks(prev, "todo")) = 1
    /\ tasks # prev

\* the rank the moved task has after the move
MovedRank == ColumnTasks(tasks, mv.destCol)[
                CHOOSE k \in 1..Len(ColumnTasks(tasks, mv.destCol)) :
                    ColumnTasks(tasks, mv.destCol)[k].id = mv.draggableId].order

\* the size of the destination column before the moved task is inserted
DestSize ==
    Len(ColumnTasks(prev, mv.destCol)) - (IF mv.destCol = mv.srcCol THEN 1 ELSE 0)

\* C22: a destination index above the size of the destination column puts
\* the moved task last (rank = size), one below 0 puts it first (rank 0),
\* and the ranks of the column are 0..n-1 in both cases
C22_IndexClamped ==
    (MovedAnywhere /\ (mv.destIndex > DestSize \/ mv.destIndex < 0)) =>
        /\ RanksFromZero(ColumnTasks(tasks, mv.destCol))
        /\ mv.destIndex > DestSize => MovedRank = DestSize
        /\ mv.destIndex < 0 => MovedRank = 0

\* C26: a move of a task from its position in the view produces an array
\* with the identifiers of the array it was given, each once
C26_NothingLostOrDuplicated ==
    MovedAnywhere =>
        /\ Len(tasks) = Len(prev)
        /\ \A i \in 1..Len(prev) :
              Cardinality({j \in 1..Len(tasks) : tasks[j].id = prev[i].id}) = 1

\* the second of three tasks of todo was moved to the front of done
C26_Witness ==
    /\ MovedAnywhere
    /\ Len(ColumnTasks(prev, "todo")) = 3
    /\ mv.srcCol = "todo" /\ mv.srcIndex = 1
    /\ mv.destCol = "done" /\ mv.destIndex = 0
    /\ Len(ColumnTasks(tasks, "todo")) = 2
    /\ Len(ColumnTasks(tasks, "done")) = 1

---------------------------------------------------------------------------
(* Properties of the view and of unknown messages (checked under *)
(* SpecReconcile)                                                 *)

\* where the task with identifier id is in the array ts
PositionOf(ts, id) == CHOOSE i \in 1..Len(ts) : ts[i].id = id

\* C23: the view is a partition of the cached array: every cached task is,
\* unchanged, at exactly one place of the view, in the sequence of its own
\* column; every sequence ascends by rank, and tasks of equal rank are in
\* the order they have in the cached array
C23_ViewPartition ==
    \A c \in ColumnIds :
        LET col == ColumnTasks(tasks, c)
            own == SelectSeq(tasks, LAMBDA t : t.column = c)
        IN  /\ Len(col) = Len(own)
            /\ \A k \in 1..Len(col) :
                  /\ col[k].column = c
                  /\ Cardinality({l \in 1..Len(col) : col[l] = col[k]})
                        = Cardinality({i \in 1..Len(tasks) : tasks[i] = col[k]})
            /\ \A k, l \in 1..Len(col) :
                  k < l =>
                     /\ col[k].order <= col[l].order
                     /\ col[k].order = col[l].order
                           => PositionOf(tasks, col[k].id) < PositionOf(tasks, col[l].id)

\* the cached array holds two tasks of one column with the same rank and a
\* task of lower rank behind them
C23_Witness ==
    /\ last.op = "onmessage"
    /\ Len(tasks) = 3
    /\ tasks[1].column = tasks[2].column /\ tasks[2].column = tasks[3].column
    /\ tasks[1].order = tasks[2].order
    /\ tasks[3].order < tasks[1].order

\* C24: a message of a type the handler does not know leaves the cached
\* array and the connectivity flag as they were and emits nothing
C24_UnknownTypeIgnored ==
    (last.op = "onmessage" /\ last.msg.type = "pong") =>
        /\ tasks = prev
        /\ out = {}
        /\ pending = EmptyBag
        /\ socketConnected

\* a message of an unknown type for the own board reached a component that
\* holds tasks
C24_Witness ==
    /\ last.op = "onmessage" /\ last.msg.type = "pong"
    /\ last.msg.boardId = boardId
    /\ Len(prev) >= 2
    /\ tasks = prev

---------------------------------------------------------------------------
(* Properties of a move seen by two clients (checked under SpecShared) *)

\* C25: after one of two clients holding the same array moved a task over
\* the open channel and both processed the tasks_reorder the server
\* broadcast for it, the two clients show the same identifier sequence in
\* every column
C25_MoveConverges ==
    (phase = 2 /\ Processed("tasks_reorder")) => GroupedIds(tasks) = GroupedIds(twin)

---------------------------------------------------------------------------
(* Properties of a drop after a server message (checked under *)
(* SpecInterleave)                                             *)

\* C27: a drop that follows a server message handled during the drag
\* produces an array with the identifiers of the array held at the drop,
\* each once: no other task is removed in place of the moved one and the
\* moved task is not duplicated
C27_InterleavedMoveSafe ==
    (last.op = "dragend" /\ phase = 2) =>
        /\ Len(tasks) = Len(prev)
        /\ \A i \in 1..Len(prev) :
              Cardinality({j \in 1..Len(tasks) : tasks[j].id = prev[i].id}) = 1

---------------------------------------------------------------------------
(* Properties of the flag across effect runs (checked under SpecSessions) *)

\* C28: the flag describes the socket in wsRef: it is true only while that
\* socket is open, and it is true once that socket has opened, also when
\* the close of the socket of an earlier effect run is delivered late
C28_StatusCurrent == socketConnected <=> (readyState = "OPEN")

---------------------------------------------------------------------------
(* Uniqueness of ids in the cached array (checked under SpecIds) *)

UniqueIds(ts) == \A i, j \in 1..Len(ts) : ts[i].id = ts[j].id => i = j

\* C29: from an array without duplicate ids, after server messages whose
\* arrays have no duplicate ids, drops of drags whose source still is the
\* dragged task's place, renames and deletes, in any order, no two tasks of
\* the cached array have the same id
C29_UniqueIds == UniqueIds(tasks)

\* a task_created for an id the array holds is handled as the second step,
\* on a full array the first step changed
C29_Witness ==
    /\ phase = 2
    /\ Processed("task_created")
    /\ HasId(prev, last.msg.task.id)
    /\ Len(tasks) = NumIds
    /\ prev \notin TwinStates

====
